---- MODULE Spec2Model ----
(***************************************************************************)
(* Lucr crawler worker: the RabbitMQ consumer (CrawlConsumer), the crawl   *)
(* coordinator (_run_all_crawlers), the PostgreSQL stores (DBManager) and  *)
(* the result publisher (CrawlResultPublisher).                            *)
(*                                                                         *)
(* Workers are separate processes sharing the broker and the database.     *)
(* Each database, publisher or broker call of the handler is one step, so  *)
(* that workers interleave between calls; save_news is two steps (the      *)
(* existence query and the commit), because the unique constraint on       *)
(* news.url is only checked when the INSERT is flushed at commit.          *)
(*                                                                         *)
(* Not modelled: timestamps other than completed_at being set, and the     *)
(* maxArticles cap (an adapter returns at most MaxFetch records).          *)
(*                                                                         *)
(* Spec is two workers over an empty news table, with redelivery and       *)
(* crashes. SpecHandler is one execution of _on_message by one worker over *)
(* any news table, with the history variables trace and audit recorded;    *)
(* SpecHandlerFair is the same execution with every call returning or      *)
(* raising. SpecRecovery is one published message on a channel that stays  *)
(* up, with at most one crash per remaining delivery, a handler that runs  *)
(* on unless the worker is killed, and a broker that redelivers.           *)
(***************************************************************************)
EXTENDS Integers, Sequences, FiniteSets, TLC

\* ---------------------------------------------------------------- bounds
MaxDeliveries == 2      \* deliveries the broker makes in one behaviour
MaxFetch == 2           \* longest list an adapter returns

\* ------------------------------------------------------------- universes
Workers == {"w1", "w2"}
\* the crawlers list of _run_all_crawlers, cut to its first two entries
Sources == <<"hankyung", "mk">>
NumSources == Len(Sources)
Urls == {"u1", "u2"}
Titles == {"t1"}
\* J1 has a crawl_jobs row, J2 is a well-formed UUID without one
JobIds == {"J1", "J2"}
ExistingJobs == {"J1"}
None == "None"
\* a NULL text column, and a text column holding t
Null == [null |-> TRUE, text |-> <<>>]
Text(t) == [null |-> FALSE, text |-> t]

\* message bodies on lucr.crawl.request
Bodies ==
  { [kind |-> "bad_json", jobId |-> None],
    [kind |-> "not_object", jobId |-> None],
    [kind |-> "no_job_id", jobId |-> None] }
  \cup { [kind |-> "request", jobId |-> j] : j \in JobIds }
NoMsg == [kind |-> "none", jobId |-> None]

\* CrawledNews, reduced to the fields save_news distinguishes
Records == [url : Urls, title : Titles, source : {Sources[k] : k \in 1..NumSources}]

RECURSIVE SeqsUpTo(_, _)
SeqsUpTo(S, n) ==
  IF n = 0 THEN {<<>>}
  ELSE LET shorter == SeqsUpTo(S, n - 1)
       IN  shorter \cup {Append(s, x) : s \in {t \in shorter : Len(t) = n - 1}, x \in S}

\* what crawl() of the k-th crawler can return
ListsBySource ==
  [k \in 1..NumSources |-> SeqsUpTo({r \in Records : r.source = Sources[k]}, MaxFetch)]
FetchLists(k) == ListsBySource[k]

RECURSIVE SumSeq(_)
SumSeq(s) == IF s = <<>> THEN 0 ELSE Head(s) + SumSeq(Tail(s))

\* ------------------------------------------------------------------ state
VARIABLES
  jobs,           \* crawl_jobs table: id -> row
  news,           \* news table: set of rows
  queue,          \* bodies ready in lucr.crawl.request
  held,           \* held[w]: the broker counts msg[w] as unacknowledged on w
  deliveries,     \* deliveries made so far
  pc,             \* position of each worker's _on_message
  msg,            \* body of the current delivery
  job_id,         \* local job_id
  src,            \* index of the crawler being driven
  news_list,      \* records of the current news_list not yet iterated
  success_count,  \* local success_count
  media_results,  \* local media_results, values in insertion order
  exc,            \* str(e) of the caught exception
  current_status, \* local current_status of the except branch
  trace,          \* calls the current handler execution has made (history,
                  \* kept when audit[w].on)
  published,      \* result events the current handler execution got routed
  audit           \* coordinator inputs of the current execution (history,
                  \* kept when audit[w].on)

store == <<jobs, news>>
broker == <<queue, held, deliveries>>
crawl == <<src, news_list, success_count, media_results>>
handler == <<msg, job_id, exc, current_status>>
vars == <<jobs, news, queue, held, deliveries, pc, msg, job_id, src, news_list,
          success_count, media_results, exc, current_status, trace, published, audit>>

\* ------------------------------------------------------------ data model
\* CrawlJobModel row as the external producer creates it
PendingJob ==
  [status |-> "PENDING", total_articles |-> 0, media_results |-> Null,
   error_message |-> None, completed_at |-> FALSE]

\* json.dumps(media_results): the JSON object as its (key, value) pairs in
\* insertion order
JsonDumps(m) == [i \in 1..Len(m) |-> <<Sources[i], m[i]>>]

UrlsOf(table) == {r.url : r \in table}

\* the row save_news builds from a record (the uuid4 id and the timestamps
\* are left out)
NewsRow(r) == [url |-> r.url, title |-> r.title, source |-> r.source]

\* the news tables the unique constraint on url admits
Stores == {t \in SUBSET {NewsRow(r) : r \in Records} :
             \A r1, r2 \in t : r1.url = r2.url => r1 = r2}

\* the CrawlResultEvent body built by publish, serialised by json.dumps;
\* media is <<>> for the default None (media_results or {})
Message(jid, status, total_articles, media) ==
  [jobId |-> jid, status |-> status, totalArticles |-> total_articles,
   mediaResults |-> JsonDumps(media)]

\* a call of the handler and how it ended: "ok", "raised", or what
\* update_job_status and publish log when they swallow a failure
Call(name, result) == [call |-> name, result |-> result]
Push(w, name, result) ==
  IF audit[w].on THEN [trace EXCEPT ![w] = Append(@, Call(name, result))] ELSE trace

\* the history kept of a coordinator run when auditing is on: the store at
\* its start, each source's list (for a raising source: the list it would
\* have returned), the sources that raised, and whether every save_news
\* call ran without a persistence error
NoAudit(on) == [on |-> on, store0 |-> {}, plan |-> <<>>, raised |-> {}, clean |-> TRUE]

\* ------------------------------------------------------------------ Init
InitWith(table, on) ==
  /\ jobs = [j \in ExistingJobs |-> PendingJob]
  /\ news = table
  /\ queue = {}
  /\ held = [w \in Workers |-> FALSE]
  /\ deliveries = 0
  /\ pc = [w \in Workers |-> "idle"]
  /\ msg = [w \in Workers |-> NoMsg]
  /\ job_id = [w \in Workers |-> None]
  /\ src = [w \in Workers |-> 1]
  /\ news_list = [w \in Workers |-> <<>>]
  /\ success_count = [w \in Workers |-> 0]
  /\ media_results = [w \in Workers |-> <<>>]
  /\ exc = [w \in Workers |-> None]
  /\ current_status = [w \in Workers |-> None]
  /\ trace = [w \in Workers |-> <<>>]
  /\ published = [w \in Workers |-> <<>>]
  /\ audit = [w \in Workers |-> NoAudit(on)]

Init == InitWith({}, FALSE)

\* one worker about to handle one delivery, over any news table, with the
\* coordinator's inputs recorded
InitHandler == \E table \in Stores : InitWith(table, TRUE)

\* the coordinator's locals and total are not read after Step 6
DropCrawl(w) ==
  /\ src' = [src EXCEPT ![w] = 1]
  /\ news_list' = [news_list EXCEPT ![w] = <<>>]
  /\ success_count' = [success_count EXCEPT ![w] = 0]
  /\ media_results' = [media_results EXCEPT ![w] = <<>>]
  /\ audit' = [audit EXCEPT ![w] = NoAudit(@.on)]

\* _on_message returned to start_consuming: its locals are gone
Return(w) ==
  /\ pc' = [pc EXCEPT ![w] = "done"]
  /\ job_id' = [job_id EXCEPT ![w] = None]
  /\ exc' = [exc EXCEPT ![w] = None]
  /\ current_status' = [current_status EXCEPT ![w] = None]

\* ------------------------------------------------------------ Job Store
\* uuid.UUID(job_id) raises inside the try for a missing jobId
UuidRaises(jid) == jid = None

\* what update_job_status logs: "ok" (committed), "not_found", "error"
UpdateOutcome(table, jid, commit_ok) ==
  IF UuidRaises(jid) THEN "error"
  ELSE IF jid \notin DOMAIN table THEN "not_found"
  ELSE IF ~commit_ok THEN "error"
  ELSE "ok"

\* faulty variant: only the status column is written
JobFieldsStatusOnly(row, status, total_articles, media, error_message) ==
  [row EXCEPT !.status = status]

\* the fields update_job_status assigns for a status
JobFields(row, status, total_articles, media, error_message) ==
  IF status = "COMPLETED"
    THEN [row EXCEPT !.status = status,
                     !.total_articles = total_articles,
                     !.media_results = IF media # <<>> THEN Text(JsonDumps(media)) ELSE Null,
                     !.completed_at = TRUE]
  ELSE IF status = "FAILED"
    THEN [row EXCEPT !.status = status,
                     !.error_message = error_message,
                     !.completed_at = TRUE]
  ELSE [row EXCEPT !.status = status]

\* faulty variant: no rollback, the assignments made before a failing commit
\* stay in the row
UpdateJobStatusNoRollback(table, jid, status, total_articles, media, error_message, commit_ok) ==
  IF UpdateOutcome(table, jid, commit_ok) = "not_found" \/ UuidRaises(jid) THEN table
  ELSE [table EXCEPT ![jid] = JobFields(@, status, total_articles, media, error_message)]

\* DBManager.update_job_status; commit_ok = FALSE is a persistence error,
\* which the method rolls back and swallows
UpdateJobStatus(table, jid, status, total_articles, media, error_message, commit_ok) ==
  IF UpdateOutcome(table, jid, commit_ok) # "ok" THEN table
  ELSE [table EXCEPT ![jid] = JobFields(@, status, total_articles, media, error_message)]

\* the status query of the except branch; a failing query gives None
ReadStatus(table, jid, read_ok) ==
  IF ~read_ok \/ UuidRaises(jid) THEN None
  ELSE IF jid \notin DOMAIN table THEN None
  ELSE table[jid].status

\* -------------------------------------------------------- Article Store
\* session.query(News).filter(News.url == url).first()
Exists(table, url) == url \in UrlsOf(table)

\* faulty variant: the url column without its unique constraint
NoUniqueConstraint(table, url) == FALSE

\* the unique constraint on news.url, checked when the INSERT is flushed
UniqueViolation(table, url) == url \in UrlsOf(table)

\* ------------------------------------------------------------- messages
\* json.loads(body) / message.get raise for these bodies
ParseRaises(b) == b.kind \in {"bad_json", "not_object"}

\* message.get("jobId")
ParseJobId(b) == b.jobId

\* where the except branch starts: the status re-read when job_id is truthy
ExceptEntry(jid) == IF jid # None THEN "reread" ELSE "nack"

\* _on_message is called with body b: Step 1, the parse
OnMessage(w, b) ==
  /\ held' = [held EXCEPT ![w] = TRUE]
  /\ deliveries' = deliveries + 1
  /\ msg' = [msg EXCEPT ![w] = b]
  /\ IF ParseRaises(b)
       THEN /\ job_id' = [job_id EXCEPT ![w] = None]
            /\ exc' = [exc EXCEPT ![w] = "parse_error"]
            /\ pc' = [pc EXCEPT ![w] = ExceptEntry(None)]
       ELSE /\ job_id' = [job_id EXCEPT ![w] = ParseJobId(b)]
            /\ exc' = [exc EXCEPT ![w] = None]
            /\ pc' = [pc EXCEPT ![w] = "mark_running"]
  /\ UNCHANGED <<store, crawl, current_status, trace, published, audit>>

\* channel.basic_qos(prefetch_count=1)
PrefetchCount == 1

\* the messages the broker counts as unacknowledged on w's channel
Unacked(w) == IF held[w] THEN 1 ELSE 0

\* faulty variant: no QoS limit, the broker pushes whenever the consumer is
\* back in start_consuming
MayPushNoQos(w) == pc[w] \in {"idle", "done"}

\* the broker may push a message to w: the consumer waits in
\* start_consuming and is below its prefetch limit
MayPush(w) == pc[w] = "idle" /\ Unacked(w) < PrefetchCount

\* the Spring producer publishes b, and the broker pushes it to a consumer
\* that holds no unacknowledged message (prefetch_count=1)
Deliver(w, b) ==
  /\ MayPush(w)
  /\ deliveries < MaxDeliveries
  /\ queue' = queue
  /\ OnMessage(w, b)

\* the broker pushes a requeued message to such a consumer
Redeliver(w, b) ==
  /\ MayPush(w)
  /\ deliveries < MaxDeliveries
  /\ b \in queue
  /\ queue' = queue \ {b}
  /\ OnMessage(w, b)

\* Step 2: self.db.update_job_status(job_id, "RUNNING")
MarkRunning(w) ==
  /\ pc[w] = "mark_running"
  /\ \E commit_ok \in BOOLEAN :
       /\ jobs' = UpdateJobStatus(jobs, job_id[w], "RUNNING", 0, <<>>, None, commit_ok)
       /\ trace' = Push(w, "update_RUNNING", UpdateOutcome(jobs, job_id[w], commit_ok))
  /\ pc' = [pc EXCEPT ![w] = "crawl"]
  /\ UNCHANGED <<news, broker, crawl, handler, published, audit>>

\* ---------------------------------------------------------- coordinator
\* faulty variant: the except clause records the count it finds
ExceptTallyStale(count) == count

\* the tally the except clause of the source loop records
ExceptTally(count) == 0

\* faulty variant: every record of the list is counted
CountedAlways(count, saved) == count + 1

\* success_count after save_news returned saved
Counted(count, saved) == IF saved THEN count + 1 ELSE count

\* the source loop after the current source's tally is known
NextSource(w, tally) ==
  /\ media_results' = [media_results EXCEPT ![w] = Append(@, tally)]
  /\ src' = [src EXCEPT ![w] = @ + 1]
  /\ pc' = [pc EXCEPT ![w] = IF src[w] + 1 > NumSources THEN "mark_completed" ELSE "crawl"]

\* faulty variant: the next source is started after the first record of a
\* list, with the rest of the list still to be saved
NextRecordBreaks(w, saved) ==
  LET count == Counted(success_count[w], saved)
  IN  /\ success_count' = [success_count EXCEPT ![w] = count]
      /\ news_list' = [news_list EXCEPT ![w] = Tail(news_list[w])]
      /\ NextSource(w, count)

\* the record loop after save_news returned saved for the head record
NextRecord(w, saved) ==
  LET count == Counted(success_count[w], saved)
      rest == Tail(news_list[w])
  IN  /\ success_count' = [success_count EXCEPT ![w] = count]
      /\ news_list' = [news_list EXCEPT ![w] = rest]
      /\ IF rest = <<>>
           THEN NextSource(w, count)
           ELSE /\ pc' = [pc EXCEPT ![w] = "save_query"]
                /\ UNCHANGED <<src, media_results>>

\* history: source src[w] was asked for its list l, and raised or not
AuditFetch(w, l, raises) ==
  audit' = IF audit[w].on
             THEN [audit EXCEPT ![w] =
                     [@ EXCEPT !.store0 = IF src[w] = 1 THEN UrlsOf(news) ELSE @,
                               !.plan = Append(@, l),
                               !.raised = IF raises THEN @ \cup {src[w]} ELSE @]]
             ELSE audit

\* history: a save_news call ended, with or without a persistence error
AuditSave(w, ok) ==
  audit' = IF audit[w].on /\ ~ok THEN [audit EXCEPT ![w].clean = FALSE] ELSE audit

\* asyncio.run / building the crawlers list fails before any source runs
CoordinatorRaise(w) ==
  /\ pc[w] = "crawl"
  /\ src[w] = 1
  /\ exc' = [exc EXCEPT ![w] = "crawl_error"]
  /\ pc' = [pc EXCEPT ![w] = ExceptEntry(job_id[w])]
  /\ trace' = Push(w, "run_all_crawlers", "raised")
  /\ UNCHANGED <<store, broker, crawl, msg, job_id, current_status, published, audit>>

\* news_list = await crawler.crawl(max_news=max_articles) raises
FetchRaise(w) ==
  /\ pc[w] = "crawl"
  /\ NextSource(w, ExceptTally(success_count[w]))
  /\ \E l \in IF audit[w].on THEN FetchLists(src[w]) ELSE {<<>>} : AuditFetch(w, l, TRUE)
  /\ UNCHANGED <<store, broker, news_list, success_count, handler, trace, published>>

\* news_list = await crawler.crawl(max_news=max_articles) returns a list l
Fetch(w) ==
  /\ pc[w] = "crawl"
  /\ \E l \in FetchLists(src[w]) :
       /\ success_count' = [success_count EXCEPT ![w] = 0]
       /\ news_list' = [news_list EXCEPT ![w] = l]
       /\ IF l = <<>>
            THEN NextSource(w, 0)
            ELSE /\ pc' = [pc EXCEPT ![w] = "save_query"]
                 /\ UNCHANGED <<src, media_results>>
       /\ AuditFetch(w, l, FALSE)
  /\ UNCHANGED <<store, broker, handler, trace, published>>

\* faulty variant: save_news refreshes the stored row of a URL it finds
SaveQueryUpsert(w) ==
  /\ pc[w] = "save_query"
  /\ \E query_ok \in BOOLEAN :
       /\ IF query_ok /\ ~Exists(news, Head(news_list[w]).url)
            THEN /\ pc' = [pc EXCEPT ![w] = "save_commit"]
                 /\ news' = news
                 /\ UNCHANGED crawl
            ELSE /\ news' = IF query_ok
                              THEN {r \in news : r.url # Head(news_list[w]).url}
                                     \cup {NewsRow(Head(news_list[w]))}
                              ELSE news
                 /\ NextRecord(w, FALSE)
       /\ AuditSave(w, query_ok)
  /\ UNCHANGED <<jobs, broker, handler, trace, published>>

\* save_news up to the existence query: a duplicate or a persistence error
\* returns False, otherwise the INSERT is pending
SaveQuery(w) ==
  /\ pc[w] = "save_query"
  /\ \E query_ok \in BOOLEAN :
       /\ IF query_ok /\ ~Exists(news, Head(news_list[w]).url)
            THEN /\ pc' = [pc EXCEPT ![w] = "save_commit"]
                 /\ UNCHANGED crawl
            ELSE NextRecord(w, FALSE)
       /\ AuditSave(w, query_ok)
  /\ UNCHANGED <<store, broker, handler, trace, published>>

\* faulty variant: save_news lets the commit error out, into the except
\* clause of the source loop
SaveCommitRaising(w) ==
  /\ pc[w] = "save_commit"
  /\ \E commit_ok \in BOOLEAN :
       /\ IF commit_ok /\ ~UniqueViolation(news, Head(news_list[w]).url)
            THEN /\ news' = news \cup {NewsRow(Head(news_list[w]))}
                 /\ NextRecord(w, TRUE)
            ELSE /\ news' = news
                 /\ NextSource(w, ExceptTally(success_count[w]))
                 /\ UNCHANGED <<news_list, success_count>>
       /\ AuditSave(w, commit_ok)
  /\ UNCHANGED <<jobs, broker, handler, trace, published>>

\* session.add(news); session.commit(): True when the row is committed,
\* False after a rollback (unique violation or another persistence error)
SaveCommit(w) ==
  /\ pc[w] = "save_commit"
  /\ \E commit_ok \in BOOLEAN :
       /\ IF commit_ok /\ ~UniqueViolation(news, Head(news_list[w]).url)
            THEN /\ news' = news \cup {NewsRow(Head(news_list[w]))}
                 /\ NextRecord(w, TRUE)
            ELSE /\ news' = news
                 /\ NextRecord(w, FALSE)
       /\ AuditSave(w, commit_ok)
  /\ UNCHANGED <<jobs, broker, handler, trace, published>>

\* -------------------------------------------------- handler, steps 4 to 7
\* faulty variant: the number of sources instead of the sum
TotalAsLen(media) == Len(media)

\* Step 4: total = sum(media_results.values())
Total(media) == SumSeq(media)

\* faulty variant: the message is acknowledged right after the COMPLETED
\* write, before the publish
MarkCompletedThenAck(w) ==
  /\ pc[w] = "mark_completed"
  /\ \E commit_ok \in BOOLEAN :
       /\ jobs' = UpdateJobStatus(jobs, job_id[w], "COMPLETED",
                                  Total(media_results[w]), media_results[w], None, commit_ok)
       /\ trace' = Push(w, "update_COMPLETED", UpdateOutcome(jobs, job_id[w], commit_ok))
  /\ pc' = [pc EXCEPT ![w] = "ack"]
  /\ UNCHANGED <<news, broker, crawl, handler, published, audit>>

\* Step 5: update_job_status(job_id, "COMPLETED", total, media_results)
MarkCompleted(w) ==
  /\ pc[w] = "mark_completed"
  /\ \E commit_ok \in BOOLEAN :
       /\ jobs' = UpdateJobStatus(jobs, job_id[w], "COMPLETED",
                                  Total(media_results[w]), media_results[w], None, commit_ok)
       /\ trace' = Push(w, "update_COMPLETED", UpdateOutcome(jobs, job_id[w], commit_ok))
  /\ pc' = [pc EXCEPT ![w] = "publish"]
  /\ UNCHANGED <<news, broker, crawl, handler, published, audit>>

\* CrawlResultPublisher.publish: the event reaches the exchange, or the
\* failure is logged and swallowed
Publish(w, m, next) ==
  /\ \E sent \in BOOLEAN :
       /\ published' = IF sent THEN [published EXCEPT ![w] = Append(@, m)] ELSE published
       /\ trace' = Push(w, "publish", IF sent THEN "ok" ELSE "error")
  /\ pc' = [pc EXCEPT ![w] = next]
  /\ DropCrawl(w)
  /\ UNCHANGED <<store, broker, handler>>

\* faulty variant: publish lets its failure out, into the except branch of
\* the handler
PublishCompletedRaising(w) ==
  /\ pc[w] = "publish"
  /\ \E sent \in BOOLEAN :
       /\ published' = IF sent
                          THEN [published EXCEPT ![w] =
                                  Append(@, Message(job_id[w], "COMPLETED",
                                                    Total(media_results[w]), media_results[w]))]
                          ELSE published
       /\ trace' = Push(w, "publish", IF sent THEN "ok" ELSE "error")
       /\ exc' = IF sent THEN exc ELSE [exc EXCEPT ![w] = "publish_error"]
       /\ pc' = [pc EXCEPT ![w] = IF sent THEN "ack" ELSE ExceptEntry(job_id[w])]
  /\ DropCrawl(w)
  /\ UNCHANGED <<store, broker, msg, job_id, current_status>>

\* Step 6: self.publisher.publish(job_id, "COMPLETED", total, media_results)
PublishCompleted(w) ==
  /\ pc[w] = "publish"
  /\ Publish(w, Message(job_id[w], "COMPLETED", Total(media_results[w]), media_results[w]),
             "ack")

\* Step 7: channel.basic_ack succeeds: the broker deletes the message
Ack(w) ==
  /\ pc[w] = "ack"
  /\ held' = [held EXCEPT ![w] = FALSE]
  /\ trace' = Push(w, "basic_ack", "ok")
  /\ Return(w)
  /\ UNCHANGED <<store, queue, deliveries, crawl, msg, published, audit>>

\* faulty variant: a failed basic_ack makes the handler start over from
\* Step 2
AckRaiseRetries(w) ==
  /\ pc[w] = "ack"
  /\ pc' = [pc EXCEPT ![w] = "mark_running"]
  /\ trace' = Push(w, "basic_ack", "raised")
  /\ UNCHANGED <<store, broker, crawl, handler, published, audit>>

\* Step 7: channel.basic_ack raises (connection lost)
AckRaise(w) ==
  /\ pc[w] = "ack"
  /\ exc' = [exc EXCEPT ![w] = "ack_error"]
  /\ pc' = [pc EXCEPT ![w] = ExceptEntry(job_id[w])]
  /\ trace' = Push(w, "basic_ack", "raised")
  /\ UNCHANGED <<store, broker, crawl, msg, job_id, current_status, published, audit>>

\* ------------------------------------------------------ the except branch
\* whether the except branch leaves the job as it is
KeepsOutcome(status) == status = "COMPLETED"

\* the re-read of the persisted status
Reread(w) ==
  /\ pc[w] = "reread"
  /\ \E read_ok \in BOOLEAN :
       LET st == ReadStatus(jobs, job_id[w], read_ok)
       IN  /\ current_status' = [current_status EXCEPT ![w] = st]
           /\ pc' = [pc EXCEPT ![w] = IF KeepsOutcome(st) THEN "nack" ELSE "mark_failed"]
           /\ trace' = Push(w, "reread", IF read_ok THEN "ok" ELSE "raised")
  /\ UNCHANGED <<store, broker, crawl, msg, job_id, exc, published, audit>>

\* faulty variant: the FAILED write without the error message
MarkFailedNoMessage(w) ==
  /\ pc[w] = "mark_failed"
  /\ \E commit_ok \in BOOLEAN :
       /\ jobs' = UpdateJobStatus(jobs, job_id[w], "FAILED", 0, <<>>, None, commit_ok)
       /\ trace' = Push(w, "update_FAILED", UpdateOutcome(jobs, job_id[w], commit_ok))
  /\ pc' = [pc EXCEPT ![w] = "publish_failed"]
  /\ UNCHANGED <<news, broker, crawl, handler, published, audit>>

\* update_job_status(job_id, "FAILED", error_message=str(e))
MarkFailed(w) ==
  /\ pc[w] = "mark_failed"
  /\ \E commit_ok \in BOOLEAN :
       /\ jobs' = UpdateJobStatus(jobs, job_id[w], "FAILED", 0, <<>>, exc[w], commit_ok)
       /\ trace' = Push(w, "update_FAILED", UpdateOutcome(jobs, job_id[w], commit_ok))
  /\ pc' = [pc EXCEPT ![w] = "publish_failed"]
  /\ UNCHANGED <<news, broker, crawl, handler, published, audit>>

\* self.publisher.publish(job_id, "FAILED")
PublishFailed(w) ==
  /\ pc[w] = "publish_failed"
  /\ Publish(w, Message(job_id[w], "FAILED", 0, <<>>), "nack")

\* faulty variant: basic_nack(requeue=True), the broker puts the message
\* back on the queue
NackRequeue(w) ==
  /\ pc[w] = "nack"
  /\ held' = [held EXCEPT ![w] = FALSE]
  /\ queue' = queue \cup {msg[w]}
  /\ trace' = Push(w, "basic_nack", "ok")
  /\ Return(w)
  /\ UNCHANGED <<store, deliveries, crawl, msg, published, audit>>

\* basic_nack(requeue=False) succeeds: the broker drops the message
Nack(w) ==
  /\ pc[w] = "nack"
  /\ held' = [held EXCEPT ![w] = FALSE]
  /\ trace' = Push(w, "basic_nack", "ok")
  /\ Return(w)
  /\ UNCHANGED <<store, queue, deliveries, crawl, msg, published, audit>>

\* faulty variant: the error of basic_nack leaves _on_message and ends
\* start_consuming
NackRaisePropagates(w) ==
  /\ pc[w] = "nack"
  /\ trace' = Push(w, "basic_nack", "raised")
  /\ pc' = [pc EXCEPT ![w] = "crashed"]
  /\ exc' = [exc EXCEPT ![w] = "nack_error"]
  /\ UNCHANGED <<store, broker, crawl, msg, job_id, current_status, published, audit>>

\* basic_nack raises and is swallowed: the message stays unacknowledged
NackRaise(w) ==
  /\ pc[w] = "nack"
  /\ trace' = Push(w, "basic_nack", "raised")
  /\ Return(w)
  /\ UNCHANGED <<store, broker, crawl, msg, published, audit>>

\* ----------------------------------------------------------------- broker
\* the history of a handler execution ends with it
Forget(w) ==
  /\ msg' = [msg EXCEPT ![w] = NoMsg]
  /\ trace' = [trace EXCEPT ![w] = <<>>]
  /\ published' = [published EXCEPT ![w] = <<>>]

\* start_consuming takes over again. A message the handler left
\* unacknowledged means the channel is gone: the broker puts the message
\* back on the queue and the worker reconnects
Resume(w) ==
  /\ pc[w] = "done"
  /\ pc' = [pc EXCEPT ![w] = "idle"]
  /\ held' = [held EXCEPT ![w] = FALSE]
  /\ queue' = IF held[w] THEN queue \cup {msg[w]} ELSE queue
  /\ Forget(w)
  /\ UNCHANGED <<store, deliveries, crawl, job_id, exc, current_status, audit>>

\* the worker process dies inside the handler; the broker requeues its
\* message and the restarted worker waits for a delivery
Crash(w) ==
  /\ pc[w] \notin {"idle", "done"}
  /\ held' = [held EXCEPT ![w] = FALSE]
  /\ queue' = queue \cup {msg[w]}
  /\ Forget(w)
  /\ pc' = [pc EXCEPT ![w] = "idle"]
  /\ job_id' = [job_id EXCEPT ![w] = None]
  /\ exc' = [exc EXCEPT ![w] = None]
  /\ current_status' = [current_status EXCEPT ![w] = None]
  /\ DropCrawl(w)
  /\ UNCHANGED <<store, deliveries>>

\* ------------------------------------------------------------------ Next
\* one execution of _on_message by worker w
Handle(w) ==
  \/ \E b \in Bodies : Deliver(w, b)
  \/ MarkRunning(w)
  \/ CoordinatorRaise(w)
  \/ FetchRaise(w)
  \/ Fetch(w)
  \/ SaveQuery(w)
  \/ SaveCommit(w)
  \/ MarkCompleted(w)
  \/ PublishCompleted(w)
  \/ Ack(w)
  \/ AckRaise(w)
  \/ Reread(w)
  \/ MarkFailed(w)
  \/ PublishFailed(w)
  \/ Nack(w)
  \/ NackRaise(w)

Next ==
  \/ \E w \in Workers : Handle(w)
  \/ \E w \in Workers, b \in Bodies : Redeliver(w, b)
  \/ \E w \in Workers : Resume(w)
  \/ \E w \in Workers : Crash(w)

Spec == Init /\ [][Next]_vars

\* a single execution of the handler, by worker w1
NextHandler == Handle("w1")

SpecHandler == InitHandler /\ [][NextHandler]_vars

\* a single execution in which every call returns or raises: the handler
\* is not killed and goes on to its next statement
SpecHandlerFair == InitHandler /\ [][NextHandler]_vars /\ WF_vars(NextHandler)

\* ------------------------------------------------- recovery after a crash
\* the producer publishes one message, and the broker pushes it
DeliverFirst(w, b) == deliveries = 0 /\ Deliver(w, b)

\* the steps of _on_message after the parse while the channel stays up
\* (basic_ack and basic_nack go through)
Steps(w) ==
  \/ MarkRunning(w)
  \/ CoordinatorRaise(w)
  \/ FetchRaise(w)
  \/ Fetch(w)
  \/ SaveQuery(w)
  \/ SaveCommit(w)
  \/ MarkCompleted(w)
  \/ PublishCompleted(w)
  \/ Ack(w)
  \/ Reread(w)
  \/ MarkFailed(w)
  \/ PublishFailed(w)
  \/ Nack(w)

\* a worker dies while the broker still has a delivery to make
CrashRecoverable(w) == deliveries < MaxDeliveries /\ Crash(w)

NextRecovery ==
  \/ \E w \in Workers, b \in Bodies : DeliverFirst(w, b)
  \/ \E w \in Workers : Steps(w)
  \/ \E w \in Workers, b \in Bodies : Redeliver(w, b)
  \/ \E w \in Workers : Resume(w)
  \/ \E w \in Workers : CrashRecoverable(w)

\* a handler that is not killed runs on: every call of it returns or
\* raises; start_consuming takes over when the handler returns; and the
\* broker pushes a requeued message to a waiting consumer
Fairness ==
  /\ \A w \in Workers : WF_vars(Steps(w))
  /\ \A w \in Workers : WF_vars(Resume(w))
  /\ WF_vars(\E w \in Workers, b \in Bodies : Redeliver(w, b))

\* one published message, one crash at most, on a channel that stays up
SpecRecovery == Init /\ [][NextRecovery]_vars /\ Fairness

\* ============================================================ properties
Terminal == {"COMPLETED", "FAILED"}

\* sum(mediaResults.values()) of a serialised mapping
RECURSIVE SumValues(_)
SumValues(pairs) ==
  IF pairs = <<>> THEN 0 ELSE Head(pairs)[2] + SumValues(Tail(pairs))

\* the calls named name in a trace, and whether one of them ended with result
Made(t, name) == {i \in 1..Len(t) : t[i].call = name}
Ended(t, name, result) == \E i \in Made(t, name) : t[i].result = result

\* worker w's save_news call returns in this step, and returns True
SaveReturns(w) ==
  /\ pc[w] \in {"save_query", "save_commit"}
  /\ pc'[w] \in {"save_query", "crawl", "mark_completed"}
  /\ news_list'[w] = Tail(news_list[w])
ReturnsTrue(w) == success_count'[w] = success_count[w] + 1

UniqueUrls(table) == \A r1, r2 \in table : r1.url = r2.url => r1 = r2

\* save_news over list l with nothing failing, against the URLs stored:
\* <<the tally, the URLs stored afterwards>>
RECURSIVE SaveAll(_, _)
SaveAll(urls, l) ==
  IF l = <<>> THEN <<0, urls>>
  ELSE LET rest == SaveAll(urls \cup {Head(l).url}, Tail(l))
       IN  <<Counted(0, Head(l).url \notin urls) + rest[1], rest[2]>>

\* the mapping _run_all_crawlers returns when its k-th source returns
\* lists[k] and nothing fails
RECURSIVE RunAllCrawlers(_, _)
RunAllCrawlers(urls, lists) ==
  IF lists = <<>> THEN <<>>
  ELSE LET first == SaveAll(urls, Head(lists))
       IN  <<first[1]>> \o RunAllCrawlers(first[2], Tail(lists))

\* the lists of a recorded run with those of the raising sources emptied
Returned(a) == [k \in 1..Len(a.plan) |-> IF k \in a.raised THEN <<>> ELSE a.plan[k]]

\* ------------------------------------------------------------------- C1
\* C1: a job whose persisted status is COMPLETED or FAILED keeps that
\* status in every later step, whichever worker or delivery takes it.
\* The code does not have this property: the RUNNING write of a second
\* delivery of the jobId replaces a terminal status.
C1_TerminalKept ==
  [][\A j \in DOMAIN jobs :
       jobs[j].status \in Terminal => jobs'[j].status = jobs[j].status]_vars

\* ------------------------------------------------------------------- C2
\* C2: in one execution of the handler, once the COMPLETED write has been
\* committed, a caught exception leads to no FAILED write and no FAILED
\* event, and the job stays COMPLETED. The code does not have this property
\* when the re-read of the status raises.
C2_Reconciliation ==
  \A w \in Workers :
    (msg[w].jobId \in DOMAIN jobs /\ Ended(trace[w], "update_COMPLETED", "ok")) =>
      /\ Made(trace[w], "update_FAILED") = {}
      /\ \A i \in 1..Len(published[w]) : published[w][i].status # "FAILED"
      /\ jobs[msg[w].jobId].status = "COMPLETED"

\* ------------------------------------------------------------------- C3
\* C3: when the handler has returned from a well-formed request for an
\* existing PENDING job, the job's status is COMPLETED or FAILED. The code
\* does not have this property: update_job_status swallows a failed commit.
C3_EndsTerminal ==
  \A w \in Workers :
    (pc[w] = "done" /\ msg[w].kind = "request" /\ msg[w].jobId \in DOMAIN jobs) =>
      jobs[msg[w].jobId].status \in Terminal

\* ------------------------------------------------------------------- C4
\* C4: a handler execution for a well-formed request whose jobId has no
\* crawl_jobs row publishes no event and never calls basic_ack, leaves the
\* jobs table as it was, and has ended with a basic_nack when it returns.
\* The code does not have this property: it crawls, publishes COMPLETED and
\* acknowledges.
C4_UnknownJob ==
  \A w \in Workers :
    (msg[w].kind = "request" /\ msg[w].jobId \notin DOMAIN jobs) =>
      /\ jobs = [j \in ExistingJobs |-> PendingJob]
      /\ Made(trace[w], "publish") = {}
      /\ published[w] = <<>>
      /\ Made(trace[w], "basic_ack") = {}
      /\ pc[w] = "done" => Ended(trace[w], "basic_nack", "ok")

\* ------------------------------------------------------------------- C5
\* C5: the news table never holds two rows with one URL; a save_news call
\* for a URL already stored returns False and leaves the table unchanged;
\* a call for a URL not stored either returns True having added exactly
\* that record's row, or returns False having added nothing.
C5_IdempotentInsert ==
  [][/\ UniqueUrls(news')
     /\ \A w \in Workers :
          SaveReturns(w) =>
            LET r == Head(news_list[w])
            IN  IF Exists(news, r.url)
                  THEN ~ReturnsTrue(w) /\ news' = news
                  ELSE \/ ReturnsTrue(w) /\ news' = news \cup {NewsRow(r)}
                       \/ ~ReturnsTrue(w) /\ news' = news]_vars

\* a second call for the URL of a record the same list has just inserted
C5_Witness ==
  \E w \in Workers :
    /\ pc[w] = "save_query"
    /\ success_count[w] = 1
    /\ Exists(news, Head(news_list[w]).url)

\* ------------------------------------------------------------------- C6
\* C6: a worker whose INSERT is pending for a URL that another worker has
\* committed meanwhile gets False from save_news: the table is unchanged
\* and holds one row for the URL, the loser's count is unchanged, and the
\* loser goes on with its next record or records the source's count; it
\* does not enter an except clause.
C6_RacingInserts ==
  [][\A w \in Workers :
       ( /\ pc[w] = "save_commit"
         /\ pc'[w] \notin {"save_commit", "idle"}
         /\ Exists(news, Head(news_list[w]).url) ) =>
           /\ news' = news
           /\ Cardinality({r \in news' : r.url = Head(news_list[w]).url}) = 1
           /\ success_count'[w] = success_count[w]
           /\ news_list'[w] = Tail(news_list[w])
           /\ exc'[w] = exc[w]
           /\ IF Tail(news_list[w]) # <<>>
                THEN pc'[w] = "save_query" /\ media_results'[w] = media_results[w]
                ELSE media_results'[w] = Append(media_results[w], success_count[w])]_vars

\* a worker's INSERT is pending for a URL that the other worker, which had
\* its own INSERT pending or still to come, has committed
C6_Witness ==
  \E w \in Workers :
    /\ pc[w] = "save_commit"
    /\ Exists(news, Head(news_list[w]).url)
    /\ \E v \in Workers \ {w} : pc[v] \notin {"idle", "mark_running"}

\* ------------------------------------------------------------------- C7
\* C7 as stated: when the coordinator has run every source without a
\* persistence error, the mapping has an entry for every source, a raising
\* source's tally is 0, and every other source's tally is what a run from
\* the same table gives in which the raising sources had returned their
\* lists as well. This fails when a raising source would have returned a
\* URL that a later source returns too.
C7_AsIfNoSourceFailed ==
  \A w \in Workers :
    (pc[w] = "mark_completed" /\ audit[w].clean) =>
      /\ Len(media_results[w]) = NumSources
      /\ \A k \in 1..NumSources :
           media_results[w][k] =
             IF k \in audit[w].raised THEN 0
             ELSE RunAllCrawlers(audit[w].store0, audit[w].plan)[k]

\* C7 amended: a raising source does not end the coordinator; the mapping
\* has an entry for every source, a raising source's tally is 0, and every
\* other source's tally is what a run from the same table gives in which
\* the raising sources had returned no records.
C7_PartialFailureIsolation ==
  \A w \in Workers :
    /\ audit[w].raised # {} =>
         pc[w] \in {"crawl", "save_query", "save_commit", "mark_completed", "publish"}
    /\ (pc[w] = "mark_completed" /\ audit[w].clean) =>
         /\ Len(media_results[w]) = NumSources
         /\ \A k \in 1..NumSources :
              media_results[w][k] =
                IF k \in audit[w].raised THEN 0
                ELSE RunAllCrawlers(audit[w].store0, Returned(audit[w]))[k]

\* the first source inserted a record, the second raised
C7_Witness ==
  \E w \in Workers :
    /\ pc[w] = "mark_completed"
    /\ audit[w].clean
    /\ audit[w].raised = {2}
    /\ media_results[w] = <<1, 0>>

\* ------------------------------------------------------------------- C8
\* C8: in every result event, COMPLETED or FAILED, the values of
\* mediaResults add up to totalArticles.
C8_EventTotals ==
  \A w \in Workers : \A i \in 1..Len(published[w]) :
    SumValues(published[w][i].mediaResults) = published[w][i].totalArticles

\* a COMPLETED event with one article, followed by a FAILED event
C8_Witness ==
  \E w \in Workers :
    /\ Len(published[w]) = 2
    /\ published[w][1].status = "COMPLETED"
    /\ published[w][1].totalArticles = 1
    /\ published[w][2].status = "FAILED"

\* ------------------------------------------------------------------- C9
\* C9: for an existing job, once the COMPLETED write is committed the row
\* has status COMPLETED, total_articles the sum of the coordinator's
\* mapping and media_results that mapping, a raising source in it with 0;
\* and when publish and basic_ack succeeded too, the handler returns with
\* the row still so and exactly one event published, which carries the
\* row's jobId, status, total and mapping.
C9_SuccessfulOutcome ==
  \A w \in Workers :
    LET jid == msg[w].jobId
        t == trace[w]
    IN  (jid \in DOMAIN jobs /\ Ended(t, "update_COMPLETED", "ok")) =>
          /\ pc[w] = "publish" =>
               /\ jobs[jid].status = "COMPLETED"
               /\ jobs[jid].total_articles = SumSeq(media_results[w])
               /\ jobs[jid].media_results = Text(JsonDumps(media_results[w]))
               /\ Len(media_results[w]) = NumSources
               /\ \A k \in audit[w].raised :
                    jobs[jid].media_results.text[k] = <<Sources[k], 0>>
          /\ (pc[w] = "done" /\ Ended(t, "publish", "ok") /\ Ended(t, "basic_ack", "ok")) =>
               /\ jobs[jid].status = "COMPLETED"
               /\ jobs[jid].completed_at
               /\ Len(published[w]) = 1
               /\ published[w][1] =
                    [jobId |-> jid, status |-> "COMPLETED",
                     totalArticles |-> jobs[jid].total_articles,
                     mediaResults |-> jobs[jid].media_results.text]
               /\ jobs[jid].total_articles = SumValues(jobs[jid].media_results.text)

\* the handler returned from a run that stored two articles
C9_Witness ==
  \E w \in Workers :
    /\ pc[w] = "done"
    /\ msg[w].jobId \in DOMAIN jobs
    /\ Ended(trace[w], "update_COMPLETED", "ok")
    /\ Ended(trace[w], "basic_ack", "ok")
    /\ Len(published[w]) = 1
    /\ published[w][1].totalArticles = 2

\* ------------------------------------------------------------------ C10
\* C10: a source's count starts at 0, goes up by one exactly with the
\* save_news calls that add a row, is not raised by a call for a URL
\* already stored, and is the tally recorded for the source; so when the
\* coordinator has run, the tallies add up to the rows added to the table.
C10_TallyCountsInsertions ==
  [][\A w \in Workers :
       /\ (pc[w] = "crawl" /\ pc'[w] = "save_query") => success_count'[w] = 0
       /\ SaveReturns(w) =>
            /\ success_count'[w] = success_count[w] + (IF news' # news THEN 1 ELSE 0)
            /\ Exists(news, Head(news_list[w]).url) => success_count'[w] = success_count[w]
            /\ pc'[w] # "save_query" =>
                 media_results'[w] = Append(media_results[w], success_count'[w])
       /\ pc'[w] = "mark_completed" =>
            SumSeq(media_results'[w]) =
              Cardinality(UrlsOf(news')) - Cardinality(audit'[w].store0)]_vars

\* a source returned two records and one of them was already stored
C10_Witness ==
  \E w \in Workers :
    /\ pc[w] = "mark_completed"
    /\ audit[w].clean
    /\ audit[w].raised = {}
    /\ \E k \in 1..NumSources :
         /\ Len(audit[w].plan[k]) = 2
         /\ audit[w].plan[k][1].url # audit[w].plan[k][2].url
         /\ media_results[w][k] = 1
\* the positions of a handler execution inside _run_all_crawlers
InCoordinator == {"crawl", "save_query", "save_commit"}

\* ------------------------------------------------------------------ C11
\* C11: for a body that is not valid JSON, not a JSON object, or has no
\* jobId, the handler never invokes the coordinator and never calls
\* basic_ack, and when it returns its last call was basic_nack. The code
\* does not have this property for a JSON object without jobId: job_id is
\* None, both update_job_status calls swallow the error of uuid.UUID(None),
\* and the handler crawls, publishes COMPLETED and acknowledges.
C11_MalformedDropped ==
  \A w \in Workers :
    msg[w].kind \in {"bad_json", "not_object", "no_job_id"} =>
      /\ pc[w] \notin InCoordinator
      /\ Made(trace[w], "basic_ack") = {}
      /\ Made(trace[w], "publish") = {}
      /\ pc[w] = "done" => trace[w][Len(trace[w])].call = "basic_nack"

\* ------------------------------------------------------------------ C12
\* C12: one handler execution calls the publisher at most once. The code
\* does not have this property: when basic_ack raises after the COMPLETED
\* publish and the re-read does not return COMPLETED (no such job, a lost
\* COMPLETED write, or a failing re-read), a FAILED event is published too.
C12_SinglePublish ==
  \A w \in Workers : Cardinality(Made(trace[w], "publish")) <= 1
\* the broker pushes a message to worker w in this step
Delivered(w) == deliveries' = deliveries + 1 /\ pc'[w] # pc[w]

\* ------------------------------------------------------------------ C13
\* C13: the broker pushes a message to a worker only while the worker
\* waits in start_consuming and holds no unacknowledged message; while a
\* handler execution runs, its message is the one unacknowledged message of
\* the worker, so no second execution starts on that worker.
C13_SingleInFlight ==
  [][\A w \in Workers :
       /\ Delivered(w) =>
            /\ pc[w] = "idle"
            /\ Unacked(w) = 0
            /\ Unacked(w)' = 1
            /\ msg[w] = NoMsg
       /\ pc'[w] \notin {"idle", "done"} => Unacked(w)' = 1
       /\ Unacked(w)' <= PrefetchCount]_vars

\* a handler returned leaving its message unacknowledged while the broker
\* still has a delivery to make
C13_Witness ==
  \E w \in Workers :
    /\ pc[w] = "done"
    /\ held[w]
    /\ deliveries < MaxDeliveries
\* ------------------------------------------------------------------ C14
\* C14: whatever the producer, the broker and the workers do (repeated and
\* redelivered requests, two workers at once, a worker dying anywhere in
\* the crawl), the news table holds at most one row for each URL.
C14_NoDuplicateArticles ==
  \A u \in Urls : Cardinality({r \in news : r.url = u}) <= 1

\* a request is handled again while its copy of an execution that died or
\* lost its channel waits in the queue, and it meets a URL already stored
C14_Witness ==
  \E w \in Workers :
    /\ msg[w] \in queue
    /\ pc[w] = "save_query"
    /\ Exists(news, Head(news_list[w]).url)
\* ------------------------------------------------------------------ C15
\* C15: when the publish call for the COMPLETED event fails, no COMPLETED
\* event is on the exchange, no exception is pending, and the next call of
\* the handler is basic_ack, not a second publish; a job whose COMPLETED
\* write was committed is COMPLETED with its totals then, and still so when
\* the handler has returned from a successful basic_ack.
C15_PublishFailureNonFatal ==
  \A w \in Workers :
    LET t == trace[w]
        jid == msg[w].jobId
    IN  (Len(t) >= 3 /\ t[2].call = "update_COMPLETED" /\ t[3] = Call("publish", "error")) =>
          /\ \A i \in 1..Len(published[w]) : published[w][i].status # "COMPLETED"
          /\ IF Len(t) = 3
               THEN pc[w] = "ack" /\ exc[w] = None
               ELSE t[4].call = "basic_ack"
          /\ (jid \in DOMAIN jobs /\ t[2].result = "ok" /\ (Len(t) = 3 \/ t[4].result = "ok")) =>
               /\ jobs[jid].status = "COMPLETED"
               /\ jobs[jid].completed_at
               /\ jobs[jid].media_results # Null
               /\ Len(jobs[jid].media_results.text) = NumSources
               /\ jobs[jid].total_articles = SumValues(jobs[jid].media_results.text)
          /\ (Len(t) >= 4 /\ t[4].result = "ok") => pc[w] = "done" /\ ~held[w] /\ Len(t) = 4

\* the handler returned from an acknowledged run of an existing job that
\* stored an article and whose COMPLETED publish failed
C15_Witness ==
  \E w \in Workers :
    /\ pc[w] = "done"
    /\ msg[w].jobId \in DOMAIN jobs
    /\ trace[w] = <<Call("update_RUNNING", "ok"), Call("update_COMPLETED", "ok"),
                    Call("publish", "error"), Call("basic_ack", "ok")>>
    /\ jobs[msg[w].jobId].total_articles >= 1
    /\ published[w] = <<>>
\* str(e) of the exception a handler execution with trace t has caught
Captured(t) == IF Ended(t, "basic_ack", "raised") THEN "ack_error" ELSE "crawl_error"

\* the FAILED events among a sequence of events
FailedEvents(evs) == {k \in 1..Len(evs) : evs[k].status = "FAILED"}

\* ------------------------------------------------------------------ C16
\* C16: when the handler has caught an exception for an existing job whose
\* COMPLETED write is not committed, its calls after the re-read are
\* update_job_status FAILED, publish, basic_nack, in this order and nothing
\* else. A committed FAILED write leaves the row FAILED with the caught
\* error as error_message; a routed publish leaves exactly one FAILED
\* event, with totalArticles 0 and empty mediaResults; no FAILED event
\* exists before.
C16_GenuineFailurePath ==
  \A w \in Workers :
    LET t == trace[w]
        jid == msg[w].jobId
    IN  (jid \in DOMAIN jobs /\ Made(t, "reread") # {} /\ ~Ended(t, "update_COMPLETED", "ok")) =>
          LET i == CHOOSE k \in Made(t, "reread") : TRUE
              n == Len(t) - i
          IN  /\ Cardinality(Made(t, "reread")) = 1
              /\ pc[w] = CASE n = 0 -> "mark_failed"
                           [] n = 1 -> "publish_failed"
                           [] n = 2 -> "nack"
                           [] OTHER -> "done"
              /\ pc[w] # "done" => exc[w] = Captured(t)
              /\ n >= 1 =>
                   /\ t[i + 1].call = "update_FAILED"
                   /\ t[i + 1].result = "ok" =>
                        /\ jobs[jid].status = "FAILED"
                        /\ jobs[jid].error_message = Captured(t)
                        /\ jobs[jid].completed_at
              /\ n <= 1 => FailedEvents(published[w]) = {}
              /\ n >= 2 =>
                   /\ t[i + 2].call = "publish"
                   /\ FailedEvents(published[w]) =
                        IF t[i + 2].result = "ok" THEN {Len(published[w])} ELSE {}
                   /\ t[i + 2].result = "ok" =>
                        published[w][Len(published[w])] =
                          [jobId |-> jid, status |-> "FAILED",
                           totalArticles |-> 0, mediaResults |-> <<>>]
              /\ n >= 3 => n = 3 /\ t[i + 3].call = "basic_nack"

\* the coordinator call raised for a PENDING job; the job is FAILED, its
\* FAILED event is out and the message is nacked
C16_Witness ==
  \E w \in Workers :
    /\ pc[w] = "done"
    /\ msg[w].jobId \in DOMAIN jobs
    /\ trace[w] = <<Call("update_RUNNING", "ok"), Call("run_all_crawlers", "raised"),
                    Call("reread", "ok"), Call("update_FAILED", "ok"),
                    Call("publish", "ok"), Call("basic_nack", "ok")>>
    /\ jobs[msg[w].jobId].error_message = "crawl_error"
    /\ Len(published[w]) = 1
\* the names of the calls in a trace, in order
Calls(t) == [i \in 1..Len(t) |-> t[i].call]

\* ------------------------------------------------------------------ C17
\* C17: every fetch and every insert of an article happens when the RUNNING
\* write is the only call made so far; the coordinator is left for the
\* COMPLETED write only with every source run; and an execution that has
\* acknowledged its message has made exactly the calls RUNNING write,
\* COMPLETED write, publish, basic_ack, in this order.
C17_SuccessPathOrder ==
  [][/\ news' # news => \E w \in Workers : pc[w] \in InCoordinator
     /\ \A w \in Workers :
       /\ pc[w] \in InCoordinator => Calls(trace[w]) = <<"update_RUNNING">>
       /\ pc'[w] = "mark_completed" =>
            /\ Len(media_results'[w]) = NumSources
            /\ Calls(trace'[w]) = <<"update_RUNNING">>
       /\ Ended(trace'[w], "basic_ack", "ok") =>
            /\ Calls(trace'[w]) =
                 <<"update_RUNNING", "update_COMPLETED", "publish", "basic_ack">>
            /\ pc'[w] = "done"]_vars

\* an acknowledged execution that stored one article
C17_Witness ==
  \E w \in Workers :
    /\ pc[w] = "done"
    /\ Ended(trace[w], "basic_ack", "ok")
    /\ ~held[w]
    /\ Len(published[w]) = 1
    /\ published[w][1].totalArticles = 1
\* ------------------------------------------------------------------ C18
\* C18: a handler execution has a COMPLETED event out or its message
\* acknowledged only if its COMPLETED write was committed, and the job is
\* COMPLETED at the moment of the publish and of the ack. The code does not
\* have this property: update_job_status returns normally from a lost
\* commit and from a missing job, and the handler publishes and
\* acknowledges all the same.
C18_EventRecordAgreement ==
  \A w \in Workers :
    LET t == trace[w]
        jid == msg[w].jobId
    IN  ( \/ \E i \in 1..Len(published[w]) : published[w][i].status = "COMPLETED"
          \/ Ended(t, "basic_ack", "ok") ) =>
          /\ Ended(t, "update_COMPLETED", "ok")
          /\ jid \in DOMAIN jobs
          /\ pc[w] \in {"ack", "done"} => jobs[jid].status = "COMPLETED"
\* the positions of a handler execution inside its except branch
InExcept == {"reread", "mark_failed", "publish_failed", "nack"}

Responses(t) ==
  {i \in 1..Len(t) : t[i].call \in {"basic_ack", "basic_nack"} /\ t[i].result = "ok"}

\* ------------------------------------------------------------------ C20
\* C20: a handler execution gets at most one broker response through,
\* basic_ack or basic_nack, and that is its last call; the response takes
\* the message off the worker without putting it on the queue; the handler
\* never puts a message on the queue, and a handler that returns without a
\* response leaves its message unacknowledged on the worker.
C20_NeverRequeues ==
  \A w \in Workers :
    LET t == trace[w]
    IN  /\ queue = {}
        /\ Cardinality(Responses(t)) <= 1
        /\ Responses(t) # {} =>
             /\ Responses(t) = {Len(t)}
             /\ pc[w] = "done"
             /\ ~held[w]
        /\ (msg[w] # NoMsg /\ Responses(t) = {}) => held[w]

\* basic_ack raised and the basic_nack that followed went through
C20_Witness ==
  \E w \in Workers :
    /\ pc[w] = "done"
    /\ Ended(trace[w], "basic_ack", "raised")
    /\ Ended(trace[w], "basic_nack", "ok")
    /\ ~held[w]
    /\ queue = {}
\* ------------------------------------------------------------------ C21
\* C21: every FAILED write of a handler execution directly follows a
\* re-read of the status that succeeded, and the job is not COMPLETED when
\* it is made; an execution whose re-read raised makes no FAILED write. The
\* code does not have this property: a raising re-read sets current_status
\* to None, which is not COMPLETED, and the FAILED write follows.
C21_FailedAfterReread ==
  \A w \in Workers :
    LET t == trace[w]
    IN  /\ \A i \in Made(t, "update_FAILED") : i > 1 /\ t[i - 1] = Call("reread", "ok")
        /\ pc[w] = "mark_failed" =>
             /\ t[Len(t)] = Call("reread", "ok")
             /\ current_status[w] # "COMPLETED"
             /\ job_id[w] \in DOMAIN jobs => jobs[job_id[w]].status # "COMPLETED"
\* a COMPLETED write has been committed for the row: only that write fills
\* media_results, with a mapping that has an entry for every source
HasOutcome(row) == row.media_results # Null

\* ------------------------------------------------------------------ C22
\* C22: once a job has been recorded COMPLETED with a total and a mapping,
\* no later step changes the row's total_articles or media_results,
\* whichever delivery or worker takes the jobId next. The code does not
\* have this property: the COMPLETED write of a second execution replaces
\* both with the second run's counts.
C22_DurableOutcome ==
  [][\A j \in DOMAIN jobs :
       /\ jobs'[j].status = "COMPLETED" => HasOutcome(jobs'[j])
       /\ HasOutcome(jobs[j]) =>
            /\ jobs'[j].total_articles = jobs[j].total_articles
            /\ jobs'[j].media_results = jobs[j].media_results]_vars
\* ------------------------------------------------------------------ C23
\* C23: in every state a job has completed_at set exactly when its status
\* is COMPLETED or FAILED. The code does not have this property: the
\* RUNNING write of a later execution changes the status of a terminal job
\* and leaves its completed_at.
C23_CompletedAtIffTerminal ==
  \A j \in DOMAIN jobs : jobs[j].completed_at <=> jobs[j].status \in Terminal
\* the update_job_status call worker w makes in this step, if it makes one
UpdateCalls == {"update_RUNNING", "update_COMPLETED", "update_FAILED"}
Updates(w) ==
  /\ Len(trace'[w]) = Len(trace[w]) + 1
  /\ trace'[w][Len(trace'[w])].call \in UpdateCalls

\* the statement of the handler that follows an update_job_status call
AfterUpdate(call) ==
  CASE call = "update_RUNNING" -> "crawl"
    [] call = "update_COMPLETED" -> "publish"
    [] call = "update_FAILED" -> "publish_failed"

\* ------------------------------------------------------------------ C24
\* C24: an update_job_status call never adds or removes a crawl_jobs row
\* and changes no row but the one of its jobId; a call for a jobId without
\* a row, and a call whose commit fails, leave the whole table as it was;
\* and every call returns to the statement after it, with no exception
\* raised into the handler.
C24_UpdateLeavesStore ==
  [][\A w \in Workers :
       Updates(w) =>
         LET c == trace'[w][Len(trace'[w])]
         IN  /\ DOMAIN jobs' = DOMAIN jobs
             /\ \A j \in DOMAIN jobs : j # job_id[w] => jobs'[j] = jobs[j]
             /\ job_id[w] \notin DOMAIN jobs => c.result # "ok"
             /\ c.result # "ok" => jobs' = jobs
             /\ pc'[w] = AfterUpdate(c.call)
             /\ exc'[w] = exc[w]]_vars

\* the commit of the COMPLETED write failed after the RUNNING write went
\* through: the job is still RUNNING, without totals, and the handler is at
\* its publish
C24_Witness ==
  \E w \in Workers :
    /\ pc[w] = "publish"
    /\ job_id[w] \in DOMAIN jobs
    /\ trace[w] = <<Call("update_RUNNING", "ok"), Call("update_COMPLETED", "error")>>
    /\ SumSeq(media_results[w]) >= 1
    /\ jobs[job_id[w]].status = "RUNNING"
    /\ ~HasOutcome(jobs[job_id[w]])
\* worker w's save_news call ends in this step, by a return or otherwise
SaveEnds(w) ==
  /\ pc[w] \in {"save_query", "save_commit"}
  /\ pc'[w] \notin {"save_commit", "idle"}
  /\ pc'[w] # pc[w] \/ news_list'[w] # news_list[w]

\* it ends on a persistence error: the record's URL was not stored before
\* the call and no row is stored by it
SaveFails(w) ==
  /\ SaveEnds(w)
  /\ ~Exists(news, Head(news_list[w]).url)
  /\ NewsRow(Head(news_list[w])) \notin news'

\* ------------------------------------------------------------------ C25
\* C25: a save_news call that hits a persistence error leaves the news
\* table as it was and returns False: the source's count is unchanged, the
\* coordinator goes on with the next record of the list, or, after the last
\* record, records the count reached so far as the source's tally; no
\* exception reaches the source loop or the handler.
C25_RecordFailureIsolated ==
  [][\A w \in Workers :
       /\ (SaveEnds(w) /\ audit[w].clean /\ ~audit'[w].clean) => SaveFails(w) \/ news' = news
       /\ SaveFails(w) =>
            /\ news' = news
            /\ success_count'[w] = success_count[w]
            /\ news_list'[w] = Tail(news_list[w])
            /\ exc'[w] = exc[w]
            /\ IF Tail(news_list[w]) # <<>>
                 THEN /\ pc'[w] = "save_query"
                      /\ media_results'[w] = media_results[w]
                      /\ src'[w] = src[w]
                 ELSE /\ media_results'[w] = Append(media_results[w], success_count[w])
                      /\ pc'[w] \in {"crawl", "mark_completed"}]_vars

\* the first source returned two new records; one was stored, the other hit
\* a persistence error, and the source's tally is 1
C25_Witness ==
  \E w \in Workers :
    /\ pc[w] = "mark_completed"
    /\ ~audit[w].clean
    /\ audit[w].raised = {}
    /\ Len(audit[w].plan[1]) = 2
    /\ \A i \in 1..2 : audit[w].plan[1][i].url \notin audit[w].store0
    /\ audit[w].plan[1][1].url # audit[w].plan[1][2].url
    /\ media_results[w][1] = 1
    /\ Cardinality(UrlsOf(news)) = Cardinality(audit[w].store0) + 1
\* ------------------------------------------------------------------ C26
\* C26: every step leaves each row of the news table in the table, with
\* the fields it was inserted with; the table changes only by the commit of
\* a save_news call, which adds the one row built from its record; and a
\* save_news call for a URL already stored leaves the table as it is.
C26_AppendOnly ==
  [][/\ news \subseteq news'
     /\ news' # news =>
          \E w \in Workers :
            /\ pc[w] = "save_commit"
            /\ news' = news \cup {NewsRow(Head(news_list[w]))}
     /\ \A w \in Workers :
          (SaveEnds(w) /\ Exists(news, Head(news_list[w]).url)) => news' = news]_vars

\* save_news is called for a URL that is stored with another source's row
C26_Witness ==
  \E w \in Workers :
    /\ pc[w] = "save_query"
    /\ \E r \in news :
         /\ r.url = Head(news_list[w]).url
         /\ r # NewsRow(Head(news_list[w]))
\* worker w's coordinator calls crawl() of a source in this step
Fetches(w) == pc[w] = "crawl" /\ Len(audit'[w].plan) = Len(audit[w].plan) + 1

\* every record of list l comes from the k-th source
FromSource(l, k) == \A i \in 1..Len(l) : l[i].source = Sources[k]

\* ------------------------------------------------------------------ C27
\* C27: the coordinator drives its sources one at a time, in the order of
\* the crawlers list. The k-th source is asked for its list when the k-1
\* sources before it have each been asked once and have their tally, and
\* no record is left to be saved; the records being saved are those of the
\* source fetched last; and the coordinator moves on from a source only
\* to the next one, with the source's tally recorded and none of its
\* records left.
C27_SequentialSources ==
  [][\A w \in Workers :
       /\ Fetches(w) =>
            /\ src[w] \in 1..NumSources
            /\ Len(audit[w].plan) = src[w] - 1
            /\ Len(media_results[w]) = src[w] - 1
            /\ news_list[w] = <<>>
            /\ FromSource(news_list'[w], src[w])
       /\ pc[w] \in {"save_query", "save_commit"} =>
            /\ news_list[w] # <<>>
            /\ FromSource(news_list[w], src[w])
            /\ Len(audit[w].plan) = src[w]
            /\ Len(media_results[w]) = src[w] - 1
       /\ (pc[w] \in InCoordinator /\ src'[w] # src[w]) =>
            /\ src'[w] = src[w] + 1
            /\ news_list'[w] = <<>>
            /\ Len(media_results'[w]) = src[w]
            /\ Len(audit'[w].plan) = src[w]
            /\ pc'[w] = IF src[w] = NumSources THEN "mark_completed" ELSE "crawl"]_vars

\* the second source is about to be fetched after both records of the
\* first source's list went through save_news
C27_Witness ==
  \E w \in Workers :
    /\ pc[w] = "crawl"
    /\ src[w] = 2
    /\ Len(audit[w].plan) = 1
    /\ Len(audit[w].plan[1]) = 2
    /\ audit[w].raised = {}
    /\ media_results[w] = <<2>>
    /\ news_list[w] = <<>>
\* the positions at which a run holds its tallies: from the delivery to the
\* publish of the COMPLETED event
InRun == {"mark_running", "mark_completed", "publish"} \cup InCoordinator

\* what worker w's run has counted so far: the tallies recorded and the
\* count of the list being saved
Tally(w) ==
  SumSeq(media_results[w])
    + (IF pc[w] \in {"save_query", "save_commit"} THEN success_count[w] ELSE 0)

RECURSIVE SumTallies(_)
SumTallies(ws) ==
  IF ws = {} THEN 0
  ELSE LET w == CHOOSE v \in ws : TRUE IN Tally(w) + SumTallies(ws \ {w})

\* ------------------------------------------------------------------ C28
\* C28: with two workers crawling at once, whatever their lists share, no
\* URL is stored twice; a row is added exactly in a step in which one
\* worker's count goes up by one, and no count goes up otherwise; so while
\* every run delivered so far still holds its tallies, the tallies of all
\* runs add up to the number of rows in the news table, which starts empty.
C28_TalliesMatchRows ==
  [][/\ UniqueUrls(news')
     /\ Cardinality(news') - Cardinality(news) =
          Cardinality({w \in Workers : SaveReturns(w) /\ ReturnsTrue(w)})
     /\ \A w \in Workers :
          (pc'[w] \in {"save_query", "save_commit"} /\ success_count'[w] > success_count[w]) =>
            SaveReturns(w) /\ ReturnsTrue(w)
     /\ \A w \in Workers :
          (SaveReturns(w) /\ pc'[w] \in InRun) => Tally(w)' = Tally(w) + success_count'[w] - success_count[w]
     /\ deliveries' = Cardinality({w \in Workers : pc'[w] \in InRun}) =>
          SumTallies(Workers)' = Cardinality(news')]_vars

\* one worker's INSERT is pending for a URL that the other worker's run,
\* still going, has stored and counted
C28_Witness ==
  \E w \in Workers : \E v \in Workers \ {w} :
    /\ pc[w] = "save_commit"
    /\ pc[v] \in InRun
    /\ Tally(v) = 1
    /\ UrlsOf(news) = {Head(news_list[w]).url}
    /\ deliveries = 2
\* the request body for job j
Request(j) == [kind |-> "request", jobId |-> j]

\* ------------------------------------------------------------------ C29
\* C29: when a worker has died with a job RUNNING and the broker has the
\* job's request back on the queue, then, with the request redelivered and
\* every call of the handler returning or raising, the job's status gets to
\* COMPLETED or FAILED. The code does not have this property: the terminal
\* write of the second execution can fail and is swallowed, the message is
\* acknowledged all the same, and the job stays RUNNING.
C29_CrashRecovery ==
  \A j \in ExistingJobs :
    (jobs[j].status = "RUNNING" /\ Request(j) \in queue) ~> (jobs[j].status \in Terminal)
\* the calls of a handler execution that talk to the broker
BrokerCalls == {"basic_ack", "basic_nack"}

\* how often one execution may make a call: the publisher is called once
\* in the try block and once in the except branch, everything else once
MaxCalls(name) == IF name = "publish" THEN 2 ELSE 1

\* ------------------------------------------------------------------ C30
\* C30: an execution of the handler makes each of its calls a bounded
\* number of times and asks each source for its list at most once, with
\* no more records to save than the list fetched; it makes no call after
\* a basic_nack or a basic_ack that went through; and, every call returning
\* or raising, every delivered message leads to the handler having
\* returned, its last call being basic_ack or basic_nack.
C30_HandlerTerminates ==
  /\ [](\A w \in Workers :
          LET t == trace[w]
          IN  /\ \A i \in 1..Len(t) : Cardinality(Made(t, t[i].call)) <= MaxCalls(t[i].call)
              /\ Len(audit[w].plan) <= NumSources
              /\ Len(news_list[w]) <= MaxFetch
              /\ \A i \in 1..Len(t) :
                   (t[i].call = "basic_nack" \/ t[i] = Call("basic_ack", "ok")) => i = Len(t)
              /\ pc[w] = "done" => (t # <<>> /\ t[Len(t)].call \in BrokerCalls))
  /\ \A w \in Workers :
       (msg[w] # NoMsg) ~> (pc[w] = "done" /\ trace[w][Len(trace[w])].call \in BrokerCalls)

\* the longest execution: basic_ack raised after the COMPLETED publish, the
\* except branch wrote and published FAILED, and basic_nack ended it
C30_Witness ==
  \E w \in Workers :
    /\ pc[w] = "done"
    /\ Calls(trace[w]) = <<"update_RUNNING", "update_COMPLETED", "publish", "basic_ack",
                           "reread", "update_FAILED", "publish", "basic_nack">>
    /\ Cardinality(news) = Cardinality(Urls)
====
